---- MODULE Spec2Model ----
(***************************************************************************)
(* Cache-aside report layer of the retail demo backend (backend/cache.py,  *)
(* backend/main.py, backend/seed.py).                                      *)
(*                                                                         *)
(* Python strings are sequences of one-character strings, so that strip,   *)
(* join, prefix matching and JSON text are computed character by           *)
(* character.  Python values are tagged records: None is [t |-> "null"],   *)
(* an int n is [t |-> "int", i |-> n], and so on.                          *)
(***************************************************************************)
EXTENDS Integers, Sequences, FiniteSets, TLC

(***************************************************************************)
(* Python values                                                           *)
(***************************************************************************)
PyNone == [t |-> "null"]
PyBool(b) == [t |-> "bool", b |-> b]
PyInt(n) == [t |-> "int", i |-> n]
PyStr(s) == [t |-> "str", s |-> s]
PyList(xs) == [t |-> "list", xs |-> xs]
\* a dict is its items in insertion order, each item a pair <<key text, value>>
PyDict(kv) == [t |-> "dict", kv |-> kv]

IsNone(x) == x.t = "null"

(***************************************************************************)
(* Text helpers                                                            *)
(***************************************************************************)
Digits == <<"0", "1", "2", "3", "4", "5", "6", "7", "8", "9">>

IsDigit(c) == \E i \in 1..10 : Digits[i] = c

DigitVal(c) == (CHOOSE i \in 1..10 : Digits[i] = c) - 1

RECURSIVE NatStr(_)
NatStr(n) == IF n < 10 THEN <<Digits[n + 1]>>
             ELSE NatStr(n \div 10) \o <<Digits[(n % 10) + 1]>>

\* str(n) for a Python int
IntStr(n) == IF n < 0 THEN <<"-">> \o NatStr(0 - n) ELSE NatStr(n)

RECURSIVE Rep(_, _)
Rep(c, n) == IF n = 0 THEN <<>> ELSE <<c>> \o Rep(c, n - 1)

StartsWith(s, p) == Len(s) >= Len(p) /\ SubSeq(s, 1, Len(p)) = p

\* str.strip(":")
RECURSIVE LStrip(_, _)
LStrip(s, c) == IF s # <<>> /\ Head(s) = c THEN LStrip(Tail(s), c) ELSE s

RECURSIVE RStrip(_, _)
RStrip(s, c) == IF s # <<>> /\ s[Len(s)] = c
                THEN RStrip(SubSeq(s, 1, Len(s) - 1), c) ELSE s

Strip(s, c) == RStrip(LStrip(s, c), c)

\* sep.join(parts)
RECURSIVE Join(_, _)
Join(parts, sep) ==
    IF parts = <<>> THEN <<>>
    ELSE IF Len(parts) = 1 THEN parts[1]
    ELSE parts[1] \o sep \o Join(Tail(parts), sep)

RECURSIVE SelectNotNone(_)
SelectNotNone(parts) ==
    IF parts = <<>> THEN <<>>
    ELSE IF IsNone(Head(parts)) THEN SelectNotNone(Tail(parts))
    ELSE <<Head(parts)>> \o SelectNotNone(Tail(parts))

(***************************************************************************)
(* backend/settings.py, backend/cache.py: key                              *)
(***************************************************************************)
CACHE_PREFIX == <<"d", "e", "m", "o">>

\* a key that renders a None part as an empty segment
KeyNoneAsEmpty(parts) ==
    LET stripped == [i \in 1..Len(parts) |->
                        IF IsNone(parts[i]) THEN <<>> ELSE Strip(parts[i].s, ":")]
    IN  CACHE_PREFIX \o <<":">> \o Join(stripped, <<":">>)

\* key(*parts): parts is a sequence of PyStr / PyNone
key(parts) ==
    LET kept == SelectNotNone(parts)
        stripped == [i \in 1..Len(kept) |-> Strip(kept[i].s, ":")]
    IN  CACHE_PREFIX \o <<":">> \o Join(stripped, <<":">>)

(***************************************************************************)
(* json.dumps(value, separators=(",", ":")) and json.loads                 *)
(***************************************************************************)
RECURSIVE Dumps(_)
RECURSIVE DumpsItems(_)
RECURSIVE DumpsPairs(_)

DumpsItems(xs) ==
    IF xs = <<>> THEN <<>>
    ELSE IF Len(xs) = 1 THEN Dumps(xs[1])
    ELSE Dumps(xs[1]) \o <<",">> \o DumpsItems(Tail(xs))

DumpsPairs(kv) ==
    IF kv = <<>> THEN <<>>
    ELSE LET one == <<"\"">> \o kv[1][1] \o <<"\"", ":">> \o Dumps(kv[1][2])
         IN  IF Len(kv) = 1 THEN one
             ELSE one \o <<",">> \o DumpsPairs(Tail(kv))

Dumps(x) ==
    CASE x.t = "null" -> <<"n", "u", "l", "l">>
      [] x.t = "bool" -> IF x.b THEN <<"t", "r", "u", "e">>
                         ELSE <<"f", "a", "l", "s", "e">>
      [] x.t = "int"  -> IntStr(x.i)
      [] x.t = "str"  -> <<"\"">> \o x.s \o <<"\"">>
      [] x.t = "list" -> <<"[">> \o DumpsItems(x.xs) \o <<"]">>
      [] x.t = "dict" -> <<"{">> \o DumpsPairs(x.kv) \o <<"}">>

\* A parse result: ok, the value, and the index of the first unread character.
Fail == [ok |-> FALSE, v |-> PyNone, n |-> 0]
Got(x, n) == [ok |-> TRUE, v |-> x, n |-> n]

Lit(s, i, word, x) ==
    IF Len(s) >= i + Len(word) - 1 /\ SubSeq(s, i, i + Len(word) - 1) = word
    THEN Got(x, i + Len(word)) ELSE Fail

RECURSIVE ScanDigits(_, _, _)
\* reads digits from s[i..], acc is the value so far
ScanDigits(s, i, acc) ==
    IF i <= Len(s) /\ IsDigit(s[i])
    THEN ScanDigits(s, i + 1, acc * 10 + DigitVal(s[i]))
    ELSE [v |-> acc, n |-> i]

ParseInt(s, i) ==
    LET neg == s[i] = "-"
        j == IF neg THEN i + 1 ELSE i
    IN  IF j > Len(s) \/ ~IsDigit(s[j]) THEN Fail
        \* JSON forbids leading zeros
        ELSE IF s[j] = "0" /\ j + 1 <= Len(s) /\ IsDigit(s[j + 1]) THEN Fail
        ELSE LET d == ScanDigits(s, j, 0)
             IN  Got(PyInt(IF neg THEN 0 - d.v ELSE d.v), d.n)

RECURSIVE ScanQuote(_, _)
\* index of the closing quote at or after i, 0 when there is none
ScanQuote(s, i) ==
    IF i > Len(s) THEN 0
    ELSE IF s[i] = "\"" THEN i
    ELSE ScanQuote(s, i + 1)

ParseStr(s, i) ==
    LET q == ScanQuote(s, i + 1)
    IN  IF q = 0 THEN Fail ELSE Got(PyStr(SubSeq(s, i + 1, q - 1)), q + 1)

RECURSIVE ParseValue(_, _)
RECURSIVE ParseItems(_, _, _)
RECURSIVE ParsePairs(_, _, _)

\* after "[" and zero or more items: i is at the start of the next item
ParseItems(s, i, acc) ==
    LET r == ParseValue(s, i)
    IN  IF ~r.ok \/ r.n > Len(s) THEN Fail
        ELSE IF s[r.n] = "]" THEN Got(PyList(Append(acc, r.v)), r.n + 1)
        ELSE IF s[r.n] = "," THEN ParseItems(s, r.n + 1, Append(acc, r.v))
        ELSE Fail

ParsePairs(s, i, acc) ==
    IF i > Len(s) \/ s[i] # "\"" THEN Fail
    ELSE LET k == ParseStr(s, i)
         IN  IF ~k.ok \/ k.n > Len(s) \/ s[k.n] # ":" THEN Fail
             ELSE LET r == ParseValue(s, k.n + 1)
                      acc2 == Append(acc, <<k.v.s, r.v>>)
                  IN  IF ~r.ok \/ r.n > Len(s) THEN Fail
                      ELSE IF s[r.n] = "}" THEN Got(PyDict(acc2), r.n + 1)
                      ELSE IF s[r.n] = "," THEN ParsePairs(s, r.n + 1, acc2)
                      ELSE Fail

ParseValue(s, i) ==
    IF i > Len(s) THEN Fail
    ELSE CASE s[i] = "n" -> Lit(s, i, <<"n", "u", "l", "l">>, PyNone)
           [] s[i] = "t" -> Lit(s, i, <<"t", "r", "u", "e">>, PyBool(TRUE))
           [] s[i] = "f" -> Lit(s, i, <<"f", "a", "l", "s", "e">>, PyBool(FALSE))
           [] s[i] = "\"" -> ParseStr(s, i)
           [] s[i] = "[" ->
                IF i + 1 <= Len(s) /\ s[i + 1] = "]" THEN Got(PyList(<<>>), i + 2)
                ELSE ParseItems(s, i + 1, <<>>)
           [] s[i] = "{" ->
                IF i + 1 <= Len(s) /\ s[i + 1] = "}" THEN Got(PyDict(<<>>), i + 2)
                ELSE ParsePairs(s, i + 1, <<>>)
           [] s[i] = "-" \/ IsDigit(s[i]) -> ParseInt(s, i)
           [] OTHER -> Fail

\* json.loads(text): [ok, v]; ok = FALSE stands for the JSONDecodeError
Loads(text) ==
    LET r == ParseValue(text, 1)
    IN  IF r.ok /\ r.n = Len(text) + 1 THEN [ok |-> TRUE, v |-> r.v]
        ELSE [ok |-> FALSE, v |-> PyNone]

(***************************************************************************)
(* The Redis server as redis-py (decode_responses=True) shows it: a store  *)
(* maps each present key to its text and its TTL in seconds, -1 for a key  *)
(* that never expires.                                                     *)
(***************************************************************************)
NoExpiry == 0 - 1

EmptyStore == [x \in {} |-> [data |-> <<>>, ttl |-> NoExpiry]]

\* r.get(k): the text, or None
RedisGet(store, k) == IF k \in DOMAIN store THEN PyStr(store[k].data) ELSE PyNone

\* r.ttl(k): -2 for an absent key, -1 for a key without expiry
RedisTtl(store, k) == IF k \in DOMAIN store THEN store[k].ttl ELSE 0 - 2

Put(store, k, entry) ==
    [x \in DOMAIN store \cup {k} |-> IF x = k THEN entry ELSE store[x]]

\* r.set(k, data)
RedisSet(store, k, data) == Put(store, k, [data |-> data, ttl |-> NoExpiry])

\* r.setex(k, ttl, data)
RedisSetex(store, k, ttl, data) == Put(store, k, [data |-> data, ttl |-> ttl])

\* a match that takes the prefix without its last character
ScanMatchLoose(store, prefix) ==
    {x \in DOMAIN store : StartsWith(x, SubSeq(prefix, 1, Len(prefix) - 1))}

\* keys matching the glob prefix + "*"; the prefixes of the service hold no
\* glob metacharacter, so that the pattern matches the keys starting with prefix
ScanMatch(store, prefix) == {x \in DOMAIN store : StartsWith(x, prefix)}

\* bool(x) for the Python values the code tests
Truthy(x) ==
    CASE x.t = "null" -> FALSE
      [] x.t = "bool" -> x.b
      [] x.t = "int"  -> x.i # 0
      [] x.t = "str"  -> x.s # <<>>
      [] x.t = "list" -> x.xs # <<>>
      [] x.t = "dict" -> x.kv # <<>>

(***************************************************************************)
(* backend/cache.py                                                        *)
(***************************************************************************)
\* get_json without the try/except around json.loads
GetJsonUnguarded(store, k) ==
    LET v == RedisGet(store, k)
    IN  IF Truthy(v)
        THEN LET obj == Loads(v.s)
             IN  [raised |-> ~obj.ok, ret |-> obj.v]
        ELSE [raised |-> FALSE, ret |-> PyNone]

\* get_json(r, k): [raised, ret]
get_json(store, k) ==
    LET v == RedisGet(store, k)
    IN  IF Truthy(v)
        THEN LET obj == Loads(v.s)
             IN  IF obj.ok THEN [raised |-> FALSE, ret |-> obj.v]
                 ELSE [raised |-> FALSE, ret |-> PyNone]
        ELSE [raised |-> FALSE, ret |-> PyNone]

\* a set_json that ignores its ttl
SetJsonNoExpiry(store, k, value, ttl) ==
    [raised |-> FALSE, store |-> RedisSet(store, k, Dumps(value))]

\* a set_json that falls back to an expiry of 60 seconds when ttl is None
SetJsonDefaultExpiry(store, k, value, ttl) ==
    [raised |-> FALSE,
     store |-> RedisSetex(store, k, IF Truthy(ttl) THEN ttl.i ELSE 60, Dumps(value))]

\* set_json(r, k, value, ttl): [raised, store]; ttl is PyInt or PyNone.
\* SETEX rejects an expire time that is not positive.
set_json(store, k, value, ttl) ==
    LET data == Dumps(value)
    IN  IF Truthy(ttl)
        THEN IF ttl.i < 0 THEN [raised |-> TRUE, store |-> store]
             ELSE [raised |-> FALSE, store |-> RedisSetex(store, k, ttl.i, data)]
        ELSE [raised |-> FALSE, store |-> RedisSet(store, k, data)]

\* delete_prefix(r, prefix), first half: the scan that queues the deletes
delete_prefix_scan(store, prefix) ==
    LET ks == ScanMatch(store, prefix)
    IN  [queued |-> ks, count |-> Cardinality(ks)]

\* delete_prefix, second half: pipe.execute()
delete_prefix_exec(store, queued) == [x \in DOMAIN store \ queued |-> store[x]]

\* what delete_prefix returns to its caller: the function has no return
delete_prefix_return(count) == PyNone

(***************************************************************************)
(* Text constants of backend/main.py                                       *)
(***************************************************************************)
S_report == <<"r", "e", "p", "o", "r", "t">>
S_active_shoppers == <<"a", "c", "t", "i", "v", "e", "_", "s", "h", "o", "p", "p", "e", "r", "s">>
S_popular == <<"p", "o", "p", "u", "l", "a", "r">>
S_customer == <<"c", "u", "s", "t", "o", "m", "e", "r">>
S_elapsed_ms == <<"e", "l", "a", "p", "s", "e", "d", "_", "m", "s">>
S_cached == <<"c", "a", "c", "h", "e", "d">>
S_ttl_seconds == <<"t", "t", "l", "_", "s", "e", "c", "o", "n", "d", "s">>
S_gen == <<"g", "e", "n">>

Colon == <<":">>

(***************************************************************************)
(* Python dict operations used by _wrap                                    *)
(***************************************************************************)
DictHas(d, name) == \E i \in 1..Len(d.kv) : d.kv[i][1] = name

DictGet(d, name) == d.kv[CHOOSE i \in 1..Len(d.kv) : d.kv[i][1] = name][2]

\* d[name] = x
DictSet(d, name, x) ==
    IF DictHas(d, name)
    THEN PyDict([i \in 1..Len(d.kv) |->
                    IF d.kv[i][1] = name THEN <<name, x>> ELSE d.kv[i]])
    ELSE PyDict(Append(d.kv, <<name, x>>))

\* d.setdefault(name, x)
DictSetDefault(d, name, x) == IF DictHas(d, name) THEN d ELSE DictSet(d, name, x)

\* _ms(started): the measured time, counted in the steps the request took from
\* perf_counter() to the return: two on a hit, three on a miss
ElapsedReading(path) == PyInt(IF path = "hit" THEN 2 ELSE 3)

\* a _wrap that adds ttl_seconds only when a ttl is given
WrapTtlWhenGiven(payload, ms, cached, ttl) ==
    LET p1 == DictSetDefault(payload, S_elapsed_ms, ms)
        p2 == IF ~IsNone(cached) THEN DictSet(p1, S_cached, cached) ELSE p1
    IN  IF ~IsNone(ttl) THEN DictSet(p2, S_ttl_seconds, ttl) ELSE p2

\* _wrap(payload, started, cached=..., ttl=...); ms is the reading of _ms(started)
_wrap(payload, ms, cached, ttl) ==
    LET p1 == DictSetDefault(payload, S_elapsed_ms, ms)
        p2 == IF ~IsNone(cached) THEN DictSet(p1, S_cached, cached) ELSE p1
    IN  DictSet(p2, S_ttl_seconds, IF ~IsNone(ttl) THEN ttl ELSE PyNone)

(***************************************************************************)
(* uuid.UUID(user_id) as customer_detail uses it                           *)
(***************************************************************************)
HexChars == {"0", "1", "2", "3", "4", "5", "6", "7", "8", "9",
             "a", "b", "c", "d", "e", "f", "A", "B", "C", "D", "E", "F"}

RECURSIVE RemoveChar(_, _)
RemoveChar(s, c) ==
    IF s = <<>> THEN <<>>
    ELSE IF Head(s) = c THEN RemoveChar(Tail(s), c)
    ELSE <<Head(s)>> \o RemoveChar(Tail(s), c)

\* str.strip(chars) for a set of characters
RECURSIVE StripSet(_, _)
StripSet(s, cs) ==
    IF s # <<>> /\ Head(s) \in cs THEN StripSet(Tail(s), cs)
    ELSE IF s # <<>> /\ s[Len(s)] \in cs THEN StripSet(SubSeq(s, 1, Len(s) - 1), cs)
    ELSE s

\* str.replace(word, '')
RECURSIVE RemoveWord(_, _)
RemoveWord(s, word) ==
    IF s = <<>> THEN <<>>
    ELSE IF StartsWith(s, word) THEN RemoveWord(SubSeq(s, Len(word) + 1, Len(s)), word)
    ELSE <<Head(s)>> \o RemoveWord(Tail(s), word)

\* hex.replace('urn:', '').replace('uuid:', '').strip('{}').replace('-', '')
UuidHex(s) ==
    LET plain == RemoveWord(RemoveWord(s, <<"u", "r", "n", ":">>),
                            <<"u", "u", "i", "d", ":">>)
    IN  RemoveChar(StripSet(plain, {"{", "}"}), "-")

\* TRUE when UUID(s) does not raise ValueError
IsUuid(s) ==
    LET h == UuidHex(s)
    IN  Len(h) = 32 /\ \A i \in 1..Len(h) : h[i] \in HexChars

\* str(uid): lower-case hex in 8-4-4-4-12 groups (the test ids are lower case)
UuidStr(s) ==
    LET h == UuidHex(s)
    IN  SubSeq(h, 1, 8) \o <<"-">> \o SubSeq(h, 9, 12) \o <<"-">> \o
        SubSeq(h, 13, 16) \o <<"-">> \o SubSeq(h, 17, 20) \o <<"-">> \o
        SubSeq(h, 21, 32)

(***************************************************************************)
(* Request parameters and cache keys of the four cached endpoints          *)
(***************************************************************************)
REPORT_TTL == 60
MAX_LIMIT == 1200

Min(a, b) == IF a < b THEN a ELSE b

\* active_shoppers_cached: lim = min(limit, 1200) if limit > 0 else None
ClampLimit(limit) == IF limit.i > 0 THEN PyInt(Min(limit.i, MAX_LIMIT)) ELSE PyNone

\* f"{x if x is not None else 'all'}"
FmtOrAll(x) == IF IsNone(x) THEN <<"a", "l", "l">> ELSE IntStr(x.i)

\* an active_shoppers_cached that builds its key from the limit as received
KeyPartsRawLimit(p) ==
    CASE p.ep = "retail" ->
           <<PyStr(S_report),
             PyStr(<<"r", "e", "t", "a", "i", "l">> \o Colon \o IntStr(p.since_days.i) \o Colon
                   \o IntStr(p.limit.i))>>
      [] p.ep = "active" ->
           <<PyStr(S_active_shoppers),
             PyStr(IntStr(p.since_days.i) \o Colon \o IntStr(p.limit.i))>>
      [] p.ep = "popular" ->
           <<PyStr(S_popular),
             PyStr(IntStr(p.since_days.i) \o Colon \o IntStr(p.limit.i))>>
      [] p.ep = "customer" ->
           <<PyStr(S_customer),
             PyStr(p.user_id \o Colon \o FmtOrAll(p.since_days))>>

\* the arguments each endpoint passes to key, from its raw parameters
KeyParts(p) ==
    CASE p.ep = "retail" ->
           <<PyStr(S_report),
             PyStr(<<"r", "e", "t", "a", "i", "l">> \o Colon \o IntStr(p.since_days.i) \o Colon
                   \o IntStr(p.limit.i))>>
      [] p.ep = "active" ->
           <<PyStr(S_active_shoppers),
             PyStr(IntStr(p.since_days.i) \o Colon \o FmtOrAll(ClampLimit(p.limit)))>>
      [] p.ep = "popular" ->
           <<PyStr(S_popular),
             PyStr(IntStr(p.since_days.i) \o Colon \o IntStr(p.limit.i))>>
      [] p.ep = "customer" ->
           <<PyStr(S_customer),
             PyStr(p.user_id \o Colon \o FmtOrAll(p.since_days))>>

\* the key each endpoint builds
KeyOf(p) == key(KeyParts(p))

(***************************************************************************)
(* backend/chat.py: the keys of the chat history and of the answer cache   *)
(***************************************************************************)
S_chat == <<"c", "h", "a", "t">>

HistKeyParts(session_id) == <<PyStr(S_chat), PyStr(<<"h", "i", "s", "t">>), PyStr(session_id)>>

\* h is abs(hash(user_msg)) % (10**10), a value the interpreter picks per process
CacheKeyParts(session_id, h) ==
    <<PyStr(S_chat), PyStr(<<"c", "a", "c", "h", "e">>), PyStr(session_id), PyStr(IntStr(h))>>

(***************************************************************************)
(* backend/import-csv.py: the standalone loader's own key                  *)
(***************************************************************************)
\* key(category, suffix): f"{CACHE_PREFIX}:{category}:{suffix.lstrip(':')}"
csv_key(category, suffix) ==
    CACHE_PREFIX \o Colon \o category \o Colon \o LStrip(suffix, ":")

\* every endpoint storing with the report TTL
StoreTtlAlways(ep) == PyInt(REPORT_TTL)

\* TTL given to set_json by each endpoint
StoreTtl(ep) == IF ep = "customer" THEN PyNone ELSE PyInt(REPORT_TTL)

\* ttl= argument of _wrap on the miss path of each endpoint
MissTtl(ep) == IF ep = "active" THEN PyInt(REPORT_TTL) ELSE PyNone

(***************************************************************************)
(* The source database and the report queries.  The tables are summarised  *)
(* by the set of customer ids and by gen, the number of the load whose     *)
(* rows the transactions table holds (0: the table is empty).  A query     *)
(* result is summarised by what determines it: gen, the time window and    *)
(* the row limit.                                                          *)
(***************************************************************************)
\* WHERE (:since_days <= 0 OR timestamp >= NOW() - :since_days days)
Window(sd) == IF sd <= 0 THEN 0 ELSE sd

Summary(db, sd, lim) ==
    PyDict(<< <<S_gen, PyInt(db.gen)>>, << <<"s", "i", "n", "c", "e">>, PyInt(Window(sd))>>,
              << <<"l", "i", "m", "i", "t">>, lim>> >>)

Rows(db, sd, lim) ==
    IF db.gen = 0 \/ (~IsNone(lim) /\ lim.i = 0) THEN PyList(<<>>)
    ELSE PyList(<<Summary(db, sd, lim)>>)

\* the outcome of a source computation; ran is the since_days and the limit its
\* statement was executed with
Ok(x, sd, lim) == [ok |-> TRUE, err |-> "none", v |-> x, ran |-> [since |-> sd, limit |-> lim]]
Err(e) == [ok |-> FALSE, err |-> e, v |-> PyNone, ran |-> [since |-> 0, limit |-> PyNone]]

\* _build_retail_report: LIMIT :limit rejects a negative limit
_build_retail_report(db, sd, limit) ==
    IF limit.i < 0 THEN Err("db") ELSE Ok(Summary(db, sd.i, limit), sd.i, limit)

\* _query_active_shoppers clamps again, then LIMIT only when limit is not None
_query_active_shoppers(db, sd, limit) ==
    LET lim == IF ~IsNone(limit) /\ limit.i > 0
               THEN PyInt(Min(limit.i, MAX_LIMIT)) ELSE PyNone
    IN  Ok(Rows(db, sd.i, lim), sd.i, lim)

_query_popular_items(db, sd, limit) ==
    IF limit.i < 0 THEN Err("db") ELSE Ok(Rows(db, sd.i, limit), sd.i, limit)

\* the two queries of customer_detail; since_days or 0
customer_queries(db, user_id, sd) ==
    LET uid == UuidStr(user_id)
        days == IF Truthy(sd) THEN sd.i ELSE 0
    IN  IF uid \notin db.customers THEN Err("notfound")
        ELSE Ok(PyDict(<< <<S_customer, PyStr(uid)>>,
                          << <<"t", "r", "a", "n", "s", "a", "c", "t", "i", "o", "n", "s">>,
                             Rows(db, days, PyNone)>> >>),
                days, PyNone)

\* the source computation of a cached endpoint on a miss
Compute(p, db) ==
    CASE p.ep = "retail" -> _build_retail_report(db, p.since_days, p.limit)
      [] p.ep = "active" -> _query_active_shoppers(db, p.since_days, ClampLimit(p.limit))
      [] p.ep = "popular" -> _query_popular_items(db, p.since_days, p.limit)
      [] p.ep = "customer" -> customer_queries(db, p.user_id, p.since_days)

PyLen(x) == CASE x.t = "list" -> Len(x.xs)
              [] x.t = "dict" -> Len(x.kv)
              [] x.t = "str" -> Len(x.s)
              [] OTHER -> 0

\* the payload handed to _wrap by each endpoint, for the cached or computed value x
Payload(ep, x) ==
    CASE ep = "retail" -> PyDict(<< <<S_report, x>> >>)
      [] ep = "active" -> PyDict(<< << <<"t", "o", "t", "a", "l", "_", "c", "o", "u", "n", "t">>,
                                       PyInt(PyLen(x))>>,
                                    <<S_active_shoppers, x>> >>)
      [] ep = "popular" -> PyDict(<< << <<"s", "u", "c", "c", "e", "s", "s">>, PyBool(TRUE)>>,
                                     << <<"p", "o", "p", "u", "l", "a", "r", "_", "i", "t", "e", "m", "s">>,
                                        x>> >>)
      [] ep = "customer" -> x

(***************************************************************************)
(* The running service: request workers of the four cached endpoints, one  *)
(* administrative worker (load_sample_data, clear_data), the Redis server  *)
(* and the database.                                                       *)
(***************************************************************************)
VARIABLES
    redis,      \* the Redis store: key -> [data, ttl]
    redisUp,    \* FALSE while every Redis call raises
    db,         \* [customers, gen]
    dbUp,       \* FALSE while every query raises
    req,        \* request worker -> its position and locals
    adm,        \* the administrative worker's position and locals
    used,       \* how much of each budget of the model is used
    inval,      \* prefixes whose invalidation by a reload has completed
    since,      \* keys requested since their last completed invalidation
    stored,     \* key -> when, with which ttl and what an endpoint last stored
    probe       \* a direct caller of cache.py: its position, arguments and result

vars == <<redis, redisUp, db, dbUp, req, adm, used, inval, since, stored, probe>>

\* bounds of the model
MaxStarts == 2
MaxAdmin == 1
MaxFaults == 1
MaxTicks == 2
TickSeconds == REPORT_TTL \div 2

Workers == {"w1", "w2"}

U1 == Rep("1", 8) \o <<"-">> \o Rep("1", 4) \o <<"-">> \o Rep("1", 4) \o <<"-">>
      \o Rep("1", 4) \o <<"-">> \o Rep("1", 12)
U2 == Rep("2", 8) \o <<"-">> \o Rep("2", 4) \o <<"-">> \o Rep("2", 4) \o <<"-">>
      \o Rep("2", 4) \o <<"-">> \o Rep("2", 12)

\* the customers of the CSV file the reload reads
CsvCustomers == {U1}

Params(ep, sd, limit, user_id) ==
    [ep |-> ep, since_days |-> sd, limit |-> limit, user_id |-> user_id]

\* the requests the clients of the model send
Requests ==
    { Params("retail", PyInt(30), PyInt(10), <<>>),
      Params("active", PyInt(30), PyInt(2000), <<>>),
      Params("popular", PyInt(30), PyInt(10), <<>>),
      Params("customer", PyNone, PyNone, U1) }

\* the same, and a customer the database does not hold
NoParams == Params("none", PyNone, PyNone, <<>>)
NoResp == [status |-> 0, err |-> "none", path |-> "none", body |-> PyNone]
Failure(status, err) == [status |-> status, err |-> err, path |-> "none", body |-> PyNone]
Success(path, body) == [status |-> 200, err |-> "none", path |-> path, body |-> body]

IdleReq ==
    [pc |-> "idle", p |-> NoParams, k |-> <<>>, cached |-> PyNone, result |-> PyNone,
     resp |-> NoResp,
     \* history of the request, kept for the properties
     absentAtStart |-> FALSE, firstAfterInval |-> FALSE, computed |-> FALSE,
     wrote |-> FALSE, sawCorrupt |-> FALSE, cacheFailed |-> FALSE,
     sawGone |-> FALSE, genRead |-> 0, ran |-> [since |-> 0, limit |-> PyNone]]

IdleAdm ==
    [pc |-> "idle", op |-> "none", i |-> 0, queued |-> {}, count |-> 0,
     deleted |-> 0, removed |-> PyNone, resp |-> NoResp,
     \* history of the operation, kept for the properties
     loaded |-> FALSE, cleared |-> {}]

IdleProbe == [pc |-> "idle", k |-> <<>>, v |-> PyNone, ttl |-> PyNone, got |-> PyNone]

\* no endpoint has stored anything yet
NothingStored == [x \in {} |-> [at |-> 0, ttl |-> PyNone, v |-> PyNone, gen |-> 0]]

\* seconds since the service started, in steps of TickSeconds
Now == used.ticks * TickSeconds

\* loads counts the loads of the transactions table since the schema was created
NoBudgetUsed == [starts |-> 0, admin |-> 0, faults |-> 0, ticks |-> 0, loads |-> 0]

LoadedOnce == [NoBudgetUsed EXCEPT !.loads = 1]

Init ==
    /\ redis = EmptyStore
    /\ redisUp = TRUE
    /\ db = [customers |-> {}, gen |-> 0]
    /\ dbUp = TRUE
    /\ req = [w \in Workers |-> IdleReq]
    /\ adm = IdleAdm
    /\ used = NoBudgetUsed
    /\ inval = {}
    /\ since = {}
    /\ stored = NothingStored
    /\ probe = IdleProbe

Finish(w, resp) == [req EXCEPT ![w].pc = "done", ![w].resp = resp]

\* a worker is free before its first request and once its response is complete;
\* the pool hands a new request to the first free worker
Free(w) == req[w].pc \in {"idle", "done"}
FirstFree == IF Free("w1") THEN "w1" ELSE IF Free("w2") THEN "w2" ELSE "none"

(***************************************************************************)
(* A cached endpoint, step by step                                         *)
(***************************************************************************)
\* a customer_detail that builds its key and reads the cache before validating
StartUnvalidated(w, p) ==
    /\ w = FirstFree
    /\ used.starts < MaxStarts
    /\ used' = [used EXCEPT !.starts = @ + 1]
    /\ LET k == KeyOf(p)
       IN  /\ req' = [req EXCEPT ![w] =
                 [IdleReq EXCEPT !.pc = "get", !.p = p, !.k = k,
                     !.absentAtStart = k \notin DOMAIN redis,
                     !.firstAfterInval =
                         /\ k \notin since
                         /\ \E pre \in inval : StartsWith(k, pre)]]
           /\ since' = since \cup {k}
    /\ UNCHANGED <<stored, probe, redis, redisUp, db, dbUp, adm, inval>>

\* entry: customer_detail validates user_id, then every endpoint builds its key
Start(w, p) ==
    /\ w = FirstFree
    /\ used.starts < MaxStarts
    /\ used' = [used EXCEPT !.starts = @ + 1]
    /\ IF p.ep = "customer" /\ ~IsUuid(p.user_id)
       THEN /\ req' = [req EXCEPT ![w] = [IdleReq EXCEPT !.pc = "done", !.p = p,
                                             !.resp = Failure(400, "invalid")]]
            /\ since' = since
       ELSE LET k == KeyOf(p)
            IN  /\ req' = [req EXCEPT ![w] =
                      [IdleReq EXCEPT !.pc = "get", !.p = p, !.k = k,
                          !.absentAtStart = k \notin DOMAIN redis,
                          !.firstAfterInval =
                              /\ k \notin since
                              /\ \E pre \in inval : StartsWith(k, pre)]]
                /\ since' = since \cup {k}
    /\ UNCHANGED <<stored, probe, redis, redisUp, db, dbUp, adm, inval>>

\* cached = get_json(rc, k); if cached is not None: ... else: ...
Get(w) ==
    /\ req[w].pc = "get"
    /\ IF ~redisUp
       THEN req' = [Finish(w, Failure(500, "redis")) EXCEPT ![w].cacheFailed = TRUE]
       ELSE LET g == get_json(redis, req[w].k)
                bad == /\ req[w].k \in DOMAIN redis
                       /\ ~Loads(redis[req[w].k].data).ok
            IN  IF g.raised
                THEN req' = [Finish(w, Failure(500, "decode")) EXCEPT ![w].sawCorrupt = bad]
                ELSE IF ~IsNone(g.ret)
                THEN req' = [req EXCEPT ![w].pc = "ttl", ![w].cached = g.ret]
                ELSE req' = [req EXCEPT ![w].pc = "query", ![w].sawCorrupt = bad,
                                        ![w].sawGone = /\ req[w].k \in DOMAIN stored
                                                       /\ req[w].k \notin DOMAIN redis]
    /\ UNCHANGED <<stored, probe, redis, redisUp, db, dbUp, adm, used, inval, since>>

\* a hit that wraps the cached value itself whenever it is a dict
TtlRawCached(w) ==
    /\ req[w].pc = "ttl"
    /\ IF ~redisUp
       THEN req' = [Finish(w, Failure(500, "redis")) EXCEPT ![w].cacheFailed = TRUE]
       ELSE req' = Finish(w, Success("hit",
                       _wrap(IF req[w].cached.t = "dict" THEN req[w].cached
                             ELSE Payload(req[w].p.ep, req[w].cached),
                             ElapsedReading("hit"), PyBool(TRUE), PyInt(RedisTtl(redis, req[w].k)))))
    /\ UNCHANGED <<stored, probe, redis, redisUp, db, dbUp, adm, used, inval, since>>

\* a hit that renews the entry's expiry (sliding expiration)
TtlRefreshing(w) ==
    /\ req[w].pc = "ttl"
    /\ IF ~redisUp
       THEN /\ req' = [Finish(w, Failure(500, "redis")) EXCEPT ![w].cacheFailed = TRUE]
            /\ redis' = redis
       ELSE /\ req' = Finish(w, Success("hit",
                         _wrap(Payload(req[w].p.ep, req[w].cached),
                               ElapsedReading("hit"), PyBool(TRUE),
                               PyInt(RedisTtl(redis, req[w].k)))))
            /\ redis' = IF req[w].k \in DOMAIN redis /\ redis[req[w].k].ttl # NoExpiry
                        THEN [redis EXCEPT ![req[w].k].ttl = REPORT_TTL]
                        ELSE redis
    /\ UNCHANGED <<stored, probe, redisUp, db, dbUp, adm, used, inval, since>>

\* hit: return _wrap(payload, started, cached=True, ttl=rc.ttl(k))
Ttl(w) ==
    /\ req[w].pc = "ttl"
    /\ IF ~redisUp
       THEN req' = [Finish(w, Failure(500, "redis")) EXCEPT ![w].cacheFailed = TRUE]
       ELSE req' = Finish(w, Success("hit",
                       _wrap(Payload(req[w].p.ep, req[w].cached),
                             ElapsedReading("hit"), PyBool(TRUE),
                             PyInt(RedisTtl(redis, req[w].k)))))
    /\ UNCHANGED <<stored, probe, redis, redisUp, db, dbUp, adm, used, inval, since>>

\* a Query that stores a marker under the key when the source fails
QueryCachingErrors(w) ==
    /\ req[w].pc = "query"
    /\ IF ~dbUp
       THEN /\ req' = Finish(w, Failure(500, "db"))
            /\ redis' = IF redisUp THEN set_json(redis, req[w].k, PyDict(<<>>), PyNone).store
                        ELSE redis
       ELSE LET c == Compute(req[w].p, db)
            IN  IF c.ok
                THEN /\ req' = [req EXCEPT ![w].pc = "set", ![w].result = c.v,
                                           ![w].computed = TRUE, ![w].genRead = db.gen,
                                        ![w].ran = c.ran]
                     /\ redis' = redis
                ELSE /\ req' = [Finish(w, Failure(IF c.err = "notfound" THEN 404 ELSE 500,
                                                  c.err))
                                  EXCEPT ![w].computed = TRUE]
                     /\ redis' = IF redisUp
                                 THEN set_json(redis, req[w].k, PyDict(<<>>), PyNone).store
                                 ELSE redis
    /\ UNCHANGED <<stored, probe, redisUp, db, dbUp, adm, used, inval, since>>

\* miss: the source computation inside "with db as session"
Query(w) ==
    /\ req[w].pc = "query"
    /\ IF ~dbUp
       THEN req' = Finish(w, Failure(500, "db"))
       ELSE LET c == Compute(req[w].p, db)
            IN  IF c.ok
                THEN req' = [req EXCEPT ![w].pc = "set", ![w].result = c.v,
                                        ![w].computed = TRUE, ![w].genRead = db.gen,
                                        ![w].ran = c.ran]
                ELSE req' = [Finish(w, Failure(IF c.err = "notfound" THEN 404 ELSE 500,
                                               c.err))
                               EXCEPT ![w].computed = TRUE]
    /\ UNCHANGED <<stored, probe, redis, redisUp, db, dbUp, adm, used, inval, since>>

\* a miss that calls _wrap before set_json: customer_detail, whose payload is the
\* result itself, then stores the wrapped dict
SetAfterWrap(w) ==
    /\ req[w].pc = "set"
    /\ LET wrapped == _wrap(Payload(req[w].p.ep, req[w].result),
                            ElapsedReading("miss"), PyBool(FALSE), MissTtl(req[w].p.ep))
           value == IF req[w].p.ep = "customer" THEN wrapped ELSE req[w].result
           st == set_json(redis, req[w].k, value, StoreTtl(req[w].p.ep))
       IN  IF ~redisUp \/ st.raised
           THEN /\ req' = [Finish(w, Failure(500, "redis")) EXCEPT ![w].cacheFailed = TRUE]
                /\ redis' = redis
                /\ stored' = stored
           ELSE /\ redis' = st.store
                /\ req' = [Finish(w, Success("miss", wrapped)) EXCEPT ![w].wrote = TRUE]
                /\ stored' = [x \in DOMAIN stored \cup {req[w].k} |->
                                 IF x = req[w].k
                                 THEN [at |-> Now, ttl |-> StoreTtl(req[w].p.ep),
                                       v |-> value, gen |-> req[w].genRead]
                                 ELSE stored[x]]
    /\ UNCHANGED <<probe, redisUp, db, dbUp, adm, used, inval, since>>

\* miss: set_json(rc, k, result, ttl=...); return _wrap(payload, started, cached=False, ttl=...)
Set(w) ==
    /\ req[w].pc = "set"
    /\ LET st == set_json(redis, req[w].k, req[w].result, StoreTtl(req[w].p.ep))
       IN  IF ~redisUp \/ st.raised
           THEN /\ req' = [Finish(w, Failure(500, "redis")) EXCEPT ![w].cacheFailed = TRUE]
                /\ redis' = redis
                /\ stored' = stored
           ELSE /\ redis' = st.store
                /\ req' = [Finish(w, Success("miss",
                               _wrap(Payload(req[w].p.ep, req[w].result),
                                     ElapsedReading("miss"), PyBool(FALSE),
                                     MissTtl(req[w].p.ep))))
                             EXCEPT ![w].wrote = TRUE]
                /\ stored' = [x \in DOMAIN stored \cup {req[w].k} |->
                                 IF x = req[w].k
                                 THEN [at |-> Now, ttl |-> StoreTtl(req[w].p.ep),
                                       v |-> req[w].result, gen |-> req[w].genRead]
                                 ELSE stored[x]]
    /\ UNCHANGED <<probe, redisUp, db, dbUp, adm, used, inval, since>>

(***************************************************************************)
(* load_sample_data and clear_data, step by step                           *)
(***************************************************************************)
\* a reload that leaves the customer namespace out
LoadPrefixPartsNoCustomer ==
    << <<PyStr(S_report), PyStr(<<>>)>>,
       <<PyStr(S_active_shoppers), PyStr(<<>>)>>,
       <<PyStr(S_popular), PyStr(<<>>)>> >>

\* the parts of key("report", ""), key("active_shoppers", ""), key("customer", ""),
\* key("popular", "")
LoadPrefixParts ==
    << <<PyStr(S_report), PyStr(<<>>)>>,
       <<PyStr(S_active_shoppers), PyStr(<<>>)>>,
       <<PyStr(S_customer), PyStr(<<>>)>>,
       <<PyStr(S_popular), PyStr(<<>>)>> >>

LoadPrefixes == [i \in 1..Len(LoadPrefixParts) |-> key(LoadPrefixParts[i])]

\* a clear_data that deletes the report namespace only
AdmPrefixReportOnly ==
    IF adm.op = "load" THEN LoadPrefixes[adm.i] ELSE key(<<PyStr(S_report), PyStr(<<>>)>>)

AdmPrefix == IF adm.op = "load" THEN LoadPrefixes[adm.i] ELSE (CACHE_PREFIX \o Colon)

AdmFail(err) == [adm EXCEPT !.pc = "done", !.resp = Failure(500, err)]

\* a load_from_csv that truncates the tables before it looks for the files
StartLoadWipingFirst(csvOk) ==
    /\ adm.pc \in {"idle", "done"}
    /\ used.admin < MaxAdmin
    /\ used' = [used EXCEPT !.admin = @ + 1]
    /\ db' = [customers |-> {}, gen |-> 0]
    /\ adm' = IF csvOk THEN [IdleAdm EXCEPT !.pc = "customers", !.op = "load"]
              ELSE [IdleAdm EXCEPT !.pc = "done", !.op = "load",
                                   !.resp = Failure(500, "nofile")]
    /\ UNCHANGED <<stored, probe, redis, redisUp, dbUp, req, inval, since>>

\* load_sample_data up to load_from_csv's file checks
StartLoad(csvOk) ==
    /\ adm.pc \in {"idle", "done"}
    /\ used.admin < MaxAdmin
    /\ used' = [used EXCEPT !.admin = @ + 1]
    /\ adm' = IF csvOk THEN [IdleAdm EXCEPT !.pc = "wipe", !.op = "load"]
              ELSE [IdleAdm EXCEPT !.pc = "done", !.op = "load",
                                   !.resp = Failure(500, "nofile")]
    /\ UNCHANGED <<stored, probe, redis, redisUp, db, dbUp, req, inval, since>>

\* wipe_all_data(): TRUNCATE both tables and commit
wipe_all_data ==
    /\ adm.pc = "wipe"
    /\ IF ~dbUp
       THEN /\ adm' = AdmFail("db")
            /\ db' = db
       ELSE /\ db' = [customers |-> {}, gen |-> 0]
            /\ adm' = [adm EXCEPT !.pc = IF adm.op = "load" THEN "customers" ELSE "scan"]
    /\ UNCHANGED <<stored, probe, redis, redisUp, dbUp, req, used, inval, since>>

\* load_from_csv: insert the customers and commit
InsertCustomers ==
    /\ adm.pc = "customers"
    /\ IF ~dbUp
       THEN /\ adm' = AdmFail("db")
            /\ db' = db
       ELSE /\ db' = [db EXCEPT !.customers = @ \cup CsvCustomers]
            /\ adm' = [adm EXCEPT !.pc = "transactions"]
    /\ UNCHANGED <<stored, probe, redis, redisUp, dbUp, req, used, inval, since>>

\* load_from_csv: insert the transactions and commit
InsertTransactions ==
    /\ adm.pc = "transactions"
    /\ IF ~dbUp
       THEN /\ adm' = AdmFail("db")
            /\ UNCHANGED <<db, used>>
       ELSE /\ db' = [db EXCEPT !.gen = used.loads + 1]
            /\ used' = [used EXCEPT !.loads = @ + 1]
            /\ adm' = [adm EXCEPT !.pc = "scan", !.i = 1, !.loaded = TRUE]
    /\ UNCHANGED <<stored, probe, redis, redisUp, dbUp, req, inval, since>>

\* a reload that undoes the load when the invalidation fails
ScanRollingBack ==
    /\ adm.pc = "scan"
    /\ IF ~redisUp
       THEN /\ adm' = AdmFail("redis")
            /\ db' = IF adm.op = "load" THEN [customers |-> {}, gen |-> 0] ELSE db
       ELSE LET sc == delete_prefix_scan(redis, AdmPrefix)
            IN  /\ adm' = [adm EXCEPT !.pc = "exec", !.queued = sc.queued,
                                      !.count = sc.count]
                /\ db' = db
    /\ UNCHANGED <<stored, probe, redis, redisUp, dbUp, req, used, inval, since>>

\* delete_prefix: the scan_iter loop
Scan ==
    /\ adm.pc = "scan"
    /\ IF ~redisUp
       THEN adm' = AdmFail("redis")
       ELSE LET sc == delete_prefix_scan(redis, AdmPrefix)
            IN  adm' = [adm EXCEPT !.pc = "exec", !.queued = sc.queued,
                                   !.count = sc.count]
    /\ UNCHANGED <<stored, probe, redis, redisUp, db, dbUp, req, used, inval, since>>

\* delete_prefix: pipe.execute() and the return; then the caller's next statement
Exec ==
    /\ adm.pc = "exec"
    /\ IF ~redisUp
       THEN /\ adm' = AdmFail("redis")
            /\ UNCHANGED <<redis, inval, since>>
       ELSE /\ redis' = delete_prefix_exec(redis, adm.queued)
            /\ inval' = IF adm.op = "load" THEN inval \cup {AdmPrefix} ELSE inval
            /\ since' = IF adm.op = "load"
                        THEN {k \in since : ~StartsWith(k, AdmPrefix)} ELSE since
            /\ LET n == Cardinality(adm.queued \cap DOMAIN redis)
                   ret == delete_prefix_return(adm.count)
               IN  adm' =
                     IF adm.op = "load" /\ adm.i < Len(LoadPrefixes)
                     THEN [adm EXCEPT !.pc = "scan", !.i = @ + 1, !.queued = {},
                                      !.cleared = @ \cup {AdmPrefix}]
                     ELSE IF adm.op = "load"
                     THEN [adm EXCEPT !.pc = "done", !.queued = {},
                                      !.cleared = @ \cup {AdmPrefix},
                                      !.resp = Success("load", PyNone)]
                     ELSE [adm EXCEPT !.pc = "count", !.queued = {}, !.deleted = n,
                                      !.cleared = @ \cup {AdmPrefix},
                                      !.removed = ret]
    /\ UNCHANGED <<stored, probe, redisUp, db, dbUp, req, used>>

\* clear_data up to wipe_all_data
StartClear ==
    /\ adm.pc \in {"idle", "done"}
    /\ used.admin < MaxAdmin
    /\ used' = [used EXCEPT !.admin = @ + 1]
    /\ adm' = [IdleAdm EXCEPT !.pc = "wipe", !.op = "clear"]
    /\ UNCHANGED <<stored, probe, redis, redisUp, db, dbUp, req, inval, since>>

\* clear_data: the two COUNT(*) queries and the response
ClearCount ==
    /\ adm.pc = "count"
    /\ adm' = IF ~dbUp THEN AdmFail("db")
              ELSE [adm EXCEPT !.pc = "done", !.resp = Success("clear", adm.removed)]
    /\ UNCHANGED <<stored, probe, redis, redisUp, db, dbUp, req, used, inval, since>>

(***************************************************************************)
(* The environment: outages, an outside writer, the passing of time        *)
(***************************************************************************)
RedisFlip ==
    /\ used.faults < MaxFaults \/ ~redisUp
    /\ redisUp' = ~redisUp
    /\ used' = IF redisUp THEN [used EXCEPT !.faults = @ + 1] ELSE used
    /\ UNCHANGED <<stored, probe, redis, db, dbUp, req, adm, inval, since>>

DbFlip ==
    /\ used.faults < MaxFaults \/ ~dbUp
    /\ dbUp' = ~dbUp
    /\ used' = IF dbUp THEN [used EXCEPT !.faults = @ + 1] ELSE used
    /\ UNCHANGED <<stored, probe, redis, redisUp, db, req, adm, inval, since>>

\* an outside writer replaces the text under a present key
Corrupt(k, text) ==
    /\ used.faults < MaxFaults
    /\ redisUp
    /\ k \in DOMAIN redis
    /\ redis' = [redis EXCEPT ![k].data = text]
    /\ used' = [used EXCEPT !.faults = @ + 1]
    /\ UNCHANGED <<stored, probe, redisUp, db, dbUp, req, adm, inval, since>>

\* TickSeconds pass: Redis counts the TTLs down and drops the expired keys
Tick ==
    /\ used.ticks < MaxTicks
    /\ used' = [used EXCEPT !.ticks = @ + 1]
    /\ LET live == {k \in DOMAIN redis :
                      redis[k].ttl = NoExpiry \/ redis[k].ttl > TickSeconds}
       IN  redis' = [k \in live |->
                       IF redis[k].ttl = NoExpiry THEN redis[k]
                       ELSE [redis[k] EXCEPT !.ttl = @ - TickSeconds]]
    /\ UNCHANGED <<stored, probe, redisUp, db, dbUp, req, adm, inval, since>>

Serve(w) ==
    \/ Get(w)
    \/ Ttl(w)
    \/ Query(w)
    \/ Set(w)

\* requests, reload and clear, and time
Next ==
    \/ \E w \in Workers, p \in Requests : Start(w, p)
    \/ \E w \in Workers : Serve(w)
    \/ \E csvOk \in BOOLEAN : StartLoad(csvOk)
    \/ wipe_all_data
    \/ InsertCustomers
    \/ InsertTransactions
    \/ Scan
    \/ Exec
    \/ StartClear
    \/ ClearCount
    \/ Tick

Spec == Init /\ [][Next]_vars

\* the state after one successful reload, with an empty cache
InitLoaded ==
    /\ redis = EmptyStore
    /\ redisUp = TRUE
    /\ db = [customers |-> CsvCustomers, gen |-> 1]
    /\ dbUp = TRUE
    /\ req = [w \in Workers |-> IdleReq]
    /\ adm = IdleAdm
    /\ used = LoadedOnce
    /\ inval = {}
    /\ since = {}
    /\ stored = NothingStored
    /\ probe = IdleProbe

\* requests against a loaded database, with outages and an outside writer
NextFaults ==
    \/ \E w \in Workers, p \in Requests \cup { Params("customer", PyNone, PyNone, U2) } :
           Start(w, p)
    \/ \E w \in Workers : Serve(w)
    \/ RedisFlip
    \/ DbFlip
    \* texts an outside writer may leave under a key
    \/ \E k \in DOMAIN redis, text \in { <<"{">>, <<>> } : Corrupt(k, text)

SpecFaults == InitLoaded /\ [][NextFaults]_vars

\* customer_detail requests, with a user_id UUID() accepts and with two it
\* rejects, with outages
NextParams ==
    \/ \E w \in Workers, id \in {U1, <<"x">>, Tail(U1)} :
           Start(w, Params("customer", PyNone, PyNone, id))
    \/ \E w \in Workers : Serve(w)
    \/ RedisFlip
    \/ DbFlip

SpecParams == InitLoaded /\ [][NextParams]_vars

\* requests to the endpoint that stores without TTL
PersistRequests == { Params("customer", PyNone, PyNone, U1) }

\* requests against a loaded database during reloads
NextReload ==
    \/ \E w \in Workers, p \in { Params("customer", PyNone, PyNone, U1),
                                 Params("retail", PyInt(30), PyInt(10), <<>>) } :
           Start(w, p)
    \/ \E w \in Workers : Serve(w)
    \/ \E csvOk \in BOOLEAN : StartLoad(csvOk)
    \/ wipe_all_data
    \/ InsertCustomers
    \/ InsertTransactions
    \/ Scan
    \/ Exec
    \/ RedisFlip

SpecReload == InitLoaded /\ [][NextReload]_vars

\* customer requests against a loaded database during reloads
NextLoad ==
    \/ \E w \in Workers, p \in PersistRequests : Start(w, p)
    \/ \E w \in Workers : Serve(w)
    \/ \E csvOk \in BOOLEAN : StartLoad(csvOk)
    \/ wipe_all_data
    \/ InsertCustomers
    \/ InsertTransactions
    \/ Scan
    \/ Exec

SpecLoad == InitLoaded /\ [][NextLoad]_vars

\* the cache after each request of ps has been served as a miss at time 0
RECURSIVE CacheAfter(_, _)
CacheAfter(ps, database) ==
    IF ps = {} THEN EmptyStore
    ELSE LET p == CHOOSE x \in ps : TRUE
         IN  set_json(CacheAfter(ps \ {p}, database), KeyOf(p),
                      Compute(p, database).v, StoreTtl(p.ep)).store

StoredAfter(ps, database) ==
    [k \in {KeyOf(p) : p \in ps} |->
        LET p == CHOOSE x \in ps : KeyOf(x) = k
        IN  [at |-> 0, ttl |-> StoreTtl(p.ep), v |-> Compute(p, database).v,
             gen |-> database.gen]]

\* what the writers other than the cached endpoints leave under the prefix:
\* chat's history list (expire 3600) and quick answer (setex 30) of a session,
\* and the standalone loader's customer set (expire 86400)
OutsideEntries ==
    LET hist == key(HistKeyParts(<<"s">>))
        answer == key(CacheKeyParts(<<"s">>, 7))
        set == csv_key(<<"c", "u", "s", "t", "o", "m", "e", "r", "s">>, <<"s", "e", "t">>)
    IN  [k \in {hist, answer, set} |->
            IF k = hist THEN [data |-> Dumps(PyStr(<<"h", "i">>)), ttl |-> 3600]
            ELSE IF k = answer THEN [data |-> <<"o", "k">>, ttl |-> 30]
            ELSE [data |-> U1, ttl |-> 86400]]

\* the state after one successful reload and some first requests
InitCached ==
    /\ redisUp = TRUE
    /\ db = [customers |-> CsvCustomers, gen |-> 1]
    /\ dbUp = TRUE
    /\ req = [w \in Workers |-> IdleReq]
    /\ adm = IdleAdm
    /\ used = LoadedOnce
    /\ inval = {}
    /\ since = {}
    /\ probe = IdleProbe
    /\ \E ps \in SUBSET Requests, out \in SUBSET DOMAIN OutsideEntries :
          /\ redis = [k \in DOMAIN CacheAfter(ps, db) \cup out |->
                         IF k \in out THEN OutsideEntries[k] ELSE CacheAfter(ps, db)[k]]
          /\ stored = StoredAfter(ps, db)

\* reloads and clear-all over a filled cache, with Redis outages
NextLoadFaults ==
    \/ \E csvOk \in BOOLEAN : StartLoad(csvOk)
    \/ wipe_all_data
    \/ InsertCustomers
    \/ InsertTransactions
    \/ Scan
    \/ Exec
    \/ StartClear
    \/ ClearCount
    \/ RedisFlip

SpecLoadFaults == InitCached /\ [][NextLoadFaults]_vars

\* requests against a loaded database while time passes
NextTtl ==
    \/ \E w \in Workers, p \in Requests : Start(w, p)
    \/ \E w \in Workers : Serve(w)
    \/ Tick

SpecTtl == InitLoaded /\ [][NextTtl]_vars

\* the endpoint that stores without TTL, with clear_data and time
NextPersist ==
    \/ \E w \in Workers, p \in PersistRequests : Start(w, p)
    \/ \E w \in Workers : Serve(w)
    \/ wipe_all_data
    \/ Scan
    \/ Exec
    \/ StartClear
    \/ ClearCount
    \/ Tick

SpecPersist == InitLoaded /\ [][NextPersist]_vars

(***************************************************************************)
(* backend/import-csv.py: load_customers_to_redis, run against the Redis   *)
(* the service uses                                                        *)
(***************************************************************************)
\* delete_prefix(redis, prefix): cursor = '0'; while cursor != '0': SCAN with
\* match=prefix + '*' and DEL of what it found; return count
csv_delete_prefix(store, prefix) ==
    LET cursor == "0"
        ks == IF cursor # "0" THEN ScanMatch(store, prefix) ELSE {}
    IN  [store |-> [x \in DOMAIN store \ ks |-> store[x]], count |-> Cardinality(ks)]

\* redis.delete(customer_set_key); deleted_count = delete_prefix(redis, key("customer", ""))
CsvClear ==
    /\ probe.pc \in {"idle", "done"}
    /\ used.starts < MaxStarts
    /\ used' = [used EXCEPT !.starts = @ + 1]
    /\ LET set == csv_key(<<"c", "u", "s", "t", "o", "m", "e", "r", "s">>, <<"s", "e", "t">>)
           d == csv_delete_prefix([x \in DOMAIN redis \ {set} |-> redis[x]],
                                  csv_key(S_customer, <<>>))
       IN  /\ redis' = d.store
           /\ probe' = [pc |-> "cleared", deleted_count |-> d.count]
    /\ UNCHANGED <<stored, redisUp, db, dbUp, req, adm, inval, since>>

\* the loop over the rows of a file with the one customer id: set_json(redis,
\* customer_key, customer, ttl=None) with json.dumps' default separators (of the
\* customer dict the model keeps the id), sadd, and the expire of the set
CsvStore(id) ==
    /\ probe.pc = "cleared"
    /\ LET set == csv_key(<<"c", "u", "s", "t", "o", "m", "e", "r", "s">>, <<"s", "e", "t">>)
           text == <<"{", "\"", "i", "d", "\"", ":", " ", "\"">> \o id \o <<"\"", "}">>
       IN  redis' = Put(RedisSet(redis, csv_key(S_customer, id), text),
                        set, [data |-> id, ttl |-> 86400])
    /\ probe' = [probe EXCEPT !.pc = "done"]
    /\ UNCHANGED <<stored, redisUp, db, dbUp, req, adm, used, inval, since>>

NextCsv ==
    \/ CsvClear
    \/ \E id \in {U1, U2} : CsvStore(id)

SpecCsv == InitCached /\ [][NextCsv]_vars

(***************************************************************************)
(* backend/seed.py: what load_from_csv reads from its two files. A file is *)
(* the sequence of the texts in its id column; of a row the model keeps    *)
(* the id and the line of the file it came from.                           *)
(***************************************************************************)
MaxRows == 2

\* texts of an id column: two ids, a form of the first that UUID() accepts
\* once stripped, a text it rejects and a blank
RawIds == { U1, U2, <<" ", "{">> \o U1 \o <<"}">>, <<"x">>, <<>> }

\* for each text of RawIds: s = _str(x), whether uuid.UUID(s) returns, and
\* str() of what it returns
ParsedIds ==
    [x \in RawIds |->
        LET s == StripSet(x, {" "})
        IN  [s |-> s, ok |-> IsUuid(s), id |-> IF IsUuid(s) THEN UuidStr(s) ELSE <<>>]]

\* an _uuid_or_new that returns the text of a valid id as the file has it
UuidOrNewAsWritten(x, n) ==
    IF ParsedIds[x].ok THEN [id |-> ParsedIds[x].s, n |-> n]
    ELSE [id |-> Rep("0", 8) \o <<"-">> \o Rep("0", 4) \o <<"-", "4">> \o Rep("0", 3)
                 \o <<"-", "8">> \o Rep("0", 3) \o <<"-">> \o Rep("0", 11) \o IntStr(n),
          n |-> n + 1]

\* _uuid_or_new(x), n being the calls of uuid4() made before: str(uuid.UUID(s))
\* for s = _str(x), or str(uuid.uuid4()) when UUID raises; uuid4() returns a
\* version-4 id that is in no file and that no earlier call returned
_uuid_or_new(x, n) ==
    IF ParsedIds[x].ok THEN [id |-> ParsedIds[x].id, n |-> n]
    ELSE [id |-> Rep("0", 8) \o <<"-">> \o Rep("0", 4) \o <<"-", "4">> \o Rep("0", 3)
                 \o <<"-", "8">> \o Rep("0", 3) \o <<"-">> \o Rep("0", 11) \o IntStr(n),
          n |-> n + 1]

\* the loop over the customers file from its row `line` on: cust_rows, and the
\* calls of uuid4() made
RECURSIVE CustRows(_, _, _, _)
CustRows(file, line, seen_ids, n) ==
    IF line > Len(file) THEN [rows |-> <<>>, n |-> n]
    ELSE LET c == _uuid_or_new(file[line], n)
         IN  IF c.id \in seen_ids THEN CustRows(file, line + 1, seen_ids, c.n)
             ELSE LET rest == CustRows(file, line + 1, seen_ids \cup {c.id}, c.n)
                  IN  [rows |-> <<[id |-> c.id, line |-> line]>> \o rest.rows,
                       n |-> rest.n]

\* the loop over the transactions file from its row `line` on: tx_rows
RECURSIVE TxRows(_, _, _, _)
TxRows(file, line, valid_ids, n) ==
    IF line > Len(file) THEN <<>>
    ELSE LET u == _uuid_or_new(file[line], n)
         IN  IF u.id \notin valid_ids THEN TxRows(file, line + 1, valid_ids, u.n)
             ELSE <<[user_id |-> u.id, line |-> line]>>
                      \o TxRows(file, line + 1, valid_ids, u.n)

\* a database holding an earlier load, and two files to load
InitRows ==
    /\ redis = EmptyStore
    /\ redisUp = TRUE
    /\ db = [customers |-> {U2}, gen |-> 1]
    /\ dbUp = TRUE
    /\ req = [w \in Workers |-> IdleReq]
    /\ adm = IdleAdm
    /\ used = LoadedOnce
    /\ inval = {}
    /\ since = {}
    /\ stored = NothingStored
    /\ \E cn, tn \in 0..MaxRows :
           \E cf \in [1..cn -> RawIds], tf \in [1..tn -> RawIds] :
               probe = [pc |-> "files", customers_csv |-> cf, transactions_csv |-> tf,
                        cust_rows |-> <<>>, tx_rows |-> <<>>]

\* load_from_csv(customers_csv, transactions_csv, reset=True) with both files
\* present and the database up: the truncation, the two loops, the two inserts
LoadFromCsv ==
    /\ probe.pc = "files"
    /\ LET c == CustRows(probe.customers_csv, 1, {}, 0)
           valid_ids == { c.rows[i].id : i \in 1..Len(c.rows) }
       IN  /\ probe' = [probe EXCEPT !.pc = "loaded", !.cust_rows = c.rows,
                            !.tx_rows = TxRows(probe.transactions_csv, 1, valid_ids, c.n)]
           /\ db' = [customers |-> valid_ids, gen |-> db.gen + 1]
    /\ UNCHANGED <<stored, redis, redisUp, dbUp, req, adm, used, inval, since>>

NextRows == LoadFromCsv

SpecRows == InitRows /\ [][NextRows]_vars

(***************************************************************************)
(* Requests over the range of parameter values, for the key properties     *)
(***************************************************************************)
KeyRequests ==
    { Params("retail", PyInt(sd), PyInt(10), <<>>) : sd \in {0 - 5, 0, 30} }
    \cup { Params("active", PyInt(sd), PyInt(lim), <<>>) :
              sd \in {0, 30}, lim \in {0 - 1, 0, MAX_LIMIT, 2000} }
    \cup { Params("popular", PyInt(sd), PyInt(10), <<>>) : sd \in {0 - 5, 0} }
    \cup { Params("customer", sd, PyNone, U1) :
              sd \in {PyNone, PyInt(0 - 5), PyInt(0), PyInt(30)} }

NextKeys ==
    \/ \E w \in Workers, p \in KeyRequests : Start(w, p)
    \/ \E w \in Workers : Serve(w)

SpecKeys == InitLoaded /\ [][NextKeys]_vars

(***************************************************************************)
(* A direct caller of cache.py: set_json(r, k, v, ttl), then get_json(r, k)*)
(***************************************************************************)
ProbeValues ==
    { PyNone, PyList(<<>>), PyDict(<<>>), PyInt(0), PyBool(FALSE), PyStr(<<>>),
      PyInt(0 - 7), PyStr(<<"x", ":">>),
      PyList(<<PyInt(1), PyNone, PyBool(TRUE)>>),
      PyDict(<< <<S_gen, PyInt(1)>>, << <<"i", "d">>, PyList(<<PyStr(<<"u">>)>>)>> >>) }

CallSet(k, v, ttl) ==
    /\ probe.pc \in {"idle", "got", "raised"}
    /\ LET st == set_json(redis, k, v, ttl)
       IN  /\ redis' = st.store
           /\ probe' = [pc |-> IF st.raised THEN "raised" ELSE "set",
                        k |-> k, v |-> v, ttl |-> ttl, got |-> PyNone]
    /\ UNCHANGED <<stored, redisUp, db, dbUp, req, adm, used, inval, since>>

CallGet ==
    /\ probe.pc = "set"
    /\ LET g == get_json(redis, probe.k)
       IN  probe' = [probe EXCEPT !.pc = IF g.raised THEN "raised" ELSE "got",
                                  !.got = g.ret]
    /\ UNCHANGED <<stored, redis, redisUp, db, dbUp, req, adm, used, inval, since>>

NextJson ==
    \/ \E k \in { key(<<PyStr(S_report), PyStr(<<"a">>)>>),
                 key(<<PyStr(S_customer), PyStr(<<"b">>)>>) },
          v \in ProbeValues,
          ttl \in { PyNone, PyInt(0), PyInt(REPORT_TTL), PyInt(0 - 1) } : CallSet(k, v, ttl)
    \/ CallGet

SpecJson == InitLoaded /\ [][NextJson]_vars

(***************************************************************************)
(* A direct caller of cache.key, with parts that are strings or None         *)
(***************************************************************************)
MaxParts == 3

\* texts a caller may pass as a part: with and without delimiters at the ends
PartValues ==
    {PyStr(s) : s \in { <<>>, <<":">>, <<"a">>, <<":", "a", ":", ":">>, <<"a", ":", "b">> }}
        \cup {PyNone}

PartSeqs == UNION {[1..n -> PartValues] : n \in 0..MaxParts}

InitKeyFn ==
    /\ redis = EmptyStore
    /\ redisUp = TRUE
    /\ db = [customers |-> CsvCustomers, gen |-> 1]
    /\ dbUp = TRUE
    /\ req = [w \in Workers |-> IdleReq]
    /\ adm = IdleAdm
    /\ used = LoadedOnce
    /\ inval = {}
    /\ since = {}
    /\ stored = NothingStored
    /\ probe \in {[pc |-> "idle", parts |-> ps, out |-> <<>>] : ps \in PartSeqs}

CallKey ==
    /\ probe.pc = "idle"
    /\ probe' = [probe EXCEPT !.pc = "keyed", !.out = key(probe.parts)]
    /\ UNCHANGED <<stored, redis, redisUp, db, dbUp, req, adm, used, inval, since>>

NextKeyFn == CallKey

SpecKeyFn == InitKeyFn /\ [][NextKeyFn]_vars

(***************************************************************************)
(* The calls of key made by main.py and chat.py, logged with their parts   *)
(***************************************************************************)
MaxCalls == 2

\* session ids a chat client may send
SessionIds == { <<"s">>, <<":", "s">>, <<"s", ":", "t">> }


SiteRequests ==
    Requests \cup { Params("customer", PyInt(30), PyNone,
                           <<"u", "r", "n", ":", "u", "u", "i", "d", ":">> \o U1) }

InitKeySites ==
    /\ redis = EmptyStore
    /\ redisUp = TRUE
    /\ db = [customers |-> CsvCustomers, gen |-> 1]
    /\ dbUp = TRUE
    /\ req = [w \in Workers |-> IdleReq]
    /\ adm = IdleAdm
    /\ used = LoadedOnce
    /\ inval = {}
    /\ since = {}
    /\ stored = NothingStored
    /\ probe = [pc |-> "idle", log |-> {}]

LogCall(site, parts) ==
    /\ Cardinality(probe.log) < MaxCalls
    /\ probe' = [probe EXCEPT !.pc = "keyed",
                     !.log = @ \cup {[site |-> site, parts |-> parts, out |-> key(parts)]}]
    /\ UNCHANGED <<stored, redis, redisUp, db, dbUp, req, adm, used, inval, since>>

\* a cached endpoint builds its key; customer_detail only for a valid user_id
EndpointKey(p) ==
    /\ p.ep = "customer" => IsUuid(p.user_id)
    /\ LogCall(p.ep, KeyParts(p))

\* load_sample_data builds its i-th prefix
PrefixKey(i) == LogCall("load", LoadPrefixParts[i])

HistKey(session_id) == LogCall("hist", HistKeyParts(session_id))

CacheKey(session_id, h) == LogCall("cache", CacheKeyParts(session_id, h))

NextKeySites ==
    \/ \E p \in SiteRequests : EndpointKey(p)
    \/ \E i \in 1..Len(LoadPrefixParts) : PrefixKey(i)
    \/ \E sid \in SessionIds : HistKey(sid)
    \* h ranges over two values of abs(hash(user_msg)) % (10**10)
    \/ \E sid \in SessionIds, h \in {0, 7} : CacheKey(sid, h)

SpecKeySites == InitKeySites /\ [][NextKeySites]_vars

(***************************************************************************)
(* Properties                                                              *)
(***************************************************************************)
InFlight(w) == req[w].pc \in {"get", "ttl", "query", "set"}
Done(w) == req[w].pc = "done"
Ok200(w) == Done(w) /\ req[w].resp.status = 200
Field(w, name) == DictGet(req[w].resp.body, name)

\* C1: among the requests that are in flight at the same time for one key that
\* was not in the cache when they started, at most one has invoked the source
\* computation (the computation runs once for all of them).
StampedeOnce ==
    \A k \in {req[w].k : w \in Workers} :
        Cardinality({w \in Workers : /\ InFlight(w)
                                     /\ req[w].k = k
                                     /\ req[w].absentAtStart
                                     /\ req[w].computed}) <= 1

\* C2: the first request for a key that starts after the reload's delete_prefix
\* of the key's namespace has completed is answered as a miss (cached = false),
\* whatever was in flight during the invalidation.
InvalidationThenMiss ==
    \A w \in Workers :
        (Ok200(w) /\ req[w].firstAfterInval) =>
            /\ req[w].resp.path = "miss"
            /\ Field(w, S_cached) = PyBool(FALSE)

\* window and limit a request means, after normalization
Meaning(p) ==
    [ep |-> p.ep, user_id |-> p.user_id,
     window |-> IF IsNone(p.since_days) THEN 0 ELSE Window(p.since_days.i),
     limit |-> IF p.ep = "active" THEN ClampLimit(p.limit) ELSE p.limit]

\* C3: two requests to the same endpoint whose parameters mean the same after
\* normalization (since_days <= 0 and, for customer detail, an absent
\* since_days all mean "all time") are given the same cache key.
EqualMeaningEqualKey ==
    \A v, w \in Workers :
        (/\ req[v].pc # "idle" /\ req[w].pc # "idle"
         /\ req[v].resp.status # 400 /\ req[w].resp.status # 400
         /\ Meaning(req[v].p) = Meaning(req[w].p))
        => req[v].k = req[w].k

\* C4: no request ends with the failure of a Redis call: with the database
\* healthy a cache outage is served as a miss.
CacheOutageInvisible ==
    \A w \in Workers : Done(w) => ~req[w].cacheFailed

\* C5: when clear_data has completed, the count it reports is the number of
\* keys its delete_prefix removed (0 when none matched).
ClearReportsCount ==
    (adm.pc = "done" /\ adm.op = "clear" /\ adm.resp.status = 200)
        => adm.resp.body = PyInt(adm.deleted)

\* C6: on every cache hit ttl_seconds is null or a non-negative integer.
HitTtlValid ==
    \A w \in Workers :
        (Ok200(w) /\ req[w].resp.path = "hit") =>
            LET t == Field(w, S_ttl_seconds)
            IN  IsNone(t) \/ (t.t = "int" /\ t.i >= 0)

\* C7: on every successful miss the response has cached = false and its
\* ttl_seconds is the TTL given to the entry just stored.
MissTtlAssigned ==
    \A w \in Workers :
        (Ok200(w) /\ req[w].resp.path = "miss") =>
            /\ Field(w, S_cached) = PyBool(FALSE)
            /\ Field(w, S_ttl_seconds) = StoreTtl(req[w].p.ep)

SourceFailed(w) == Done(w) /\ req[w].resp.err \in {"notfound", "db"}

\* C8: a step in which the source computation of a request fails delivers the
\* error (404 for an unknown customer, 500 for a database failure) and leaves
\* every cache key as it was; a request that failed at the source has written
\* nothing.
ErrorsNeverCached ==
    [][\A w \in Workers :
          /\ (req[w].pc = "query" /\ req'[w].pc = "done") =>
                /\ req'[w].resp.status \in {404, 500}
                /\ req'[w].resp.err \in {"notfound", "db"}
                /\ redis' = redis
          /\ (req'[w].pc = "done" /\ req'[w].resp.err \in {"notfound", "db"})
                => ~req'[w].wrote]_vars

\* C8 witness: a request has ended with the source's error
SomeSourceFailure ==
    /\ \E w \in Workers : SourceFailed(w) /\ req[w].resp.status = 404
    /\ \E w \in Workers : SourceFailed(w) /\ req[w].resp.status = 500

\* C9: get_json right after set_json(k, v, ttl) returns a value equal to v and
\* different from the miss value, for every v and ttl.
RoundTrip ==
    probe.pc = "got" => (probe.got = probe.v /\ ~IsNone(probe.got))

StoredBad(k) == k \in DOMAIN redis /\ ~Loads(redis[k].data).ok

\* C10: a get_json that finds a text that is not valid JSON under the key
\* returns the miss value, so the request goes on to the source computation
\* instead of failing; when that request then stores its result, the key holds
\* the JSON text of the fresh result.
CorruptIsMiss ==
    [][\A w \in Workers :
          /\ (req[w].pc = "get" /\ redisUp /\ StoredBad(req[w].k))
                => req'[w].pc \in {"get", "query"}
          /\ (req[w].pc = "set" /\ req[w].sawCorrupt /\ req'[w].wrote) =>
                /\ req[w].k \in DOMAIN redis'
                /\ Loads(redis'[req[w].k].data) = [ok |-> TRUE, v |-> req[w].result]]_vars

\* C10 witness: a request that read a corrupt text has recomputed and stored
CorruptOverwritten ==
    \E w \in Workers :
        /\ Ok200(w) /\ req[w].sawCorrupt /\ req[w].wrote
        /\ ~StoredBad(req[w].k)

NotNone(p) == ~IsNone(p)

\* s without the ':' characters at its two ends
Trimmed(s) ==
    LET idx == {i \in 1..Len(s) : s[i] # ":"}
    IN  IF idx = {} THEN <<>>
        ELSE SubSeq(s, CHOOSE i \in idx : \A j \in idx : i <= j,
                       CHOOSE i \in idx : \A j \in idx : i >= j)

CountColons(s) == Cardinality({i \in 1..Len(s) : s[i] = ":"})

RECURSIVE ColonThenEach(_)
ColonThenEach(ps) ==
    IF ps = <<>> THEN <<>>
    ELSE <<":">> \o Trimmed(Head(ps).s) \o ColonThenEach(Tail(ps))

RECURSIVE InnerColons(_)
InnerColons(ps) ==
    IF ps = <<>> THEN 0
    ELSE CountColons(Trimmed(Head(ps).s)) + InnerColons(Tail(ps))

\* C11: key(parts) is the prefix followed by the non-None parts, each with the
\* ':' at its ends stripped, joined by ':'; the None parts leave no trace, so
\* key(a, None, b) = key(a, b), and the key has no delimiter beyond the one
\* after the prefix, one between consecutive kept parts and those inside a part.
KeyOmitsNone ==
    probe.pc = "keyed" =>
        LET kept == SelectSeq(probe.parts, NotNone)
        IN  /\ probe.out = key(kept)
            /\ probe.out = IF kept = <<>> THEN CACHE_PREFIX \o <<":">>
                           ELSE CACHE_PREFIX \o ColonThenEach(kept)
            /\ CountColons(probe.out) =
                   (IF kept = <<>> THEN 1 ELSE Len(kept)) + InnerColons(kept)

\* C11 witness: key(a, None, b) was called with delimiters at the ends of a
KeyedAroundNone ==
    /\ probe.pc = "keyed"
    /\ Len(probe.parts) = 3
    /\ probe.parts[1] = PyStr(<<":", "a", ":", ":">>)
    /\ IsNone(probe.parts[2])
    /\ probe.parts[3] = PyStr(<<"a">>)
    /\ probe.out = CACHE_PREFIX \o <<":", "a", ":", "a">>

\* C12: every call of key made by the endpoints and the chat module yields a key
\* with exactly one ':'-delimited segment per non-null part after the prefix,
\* and two calls with different sequences of non-null parts yield different
\* keys.
KeyPartsAreSegments ==
    /\ \A c \in probe.log :
           CountColons(c.out) = Len(SelectSeq(c.parts, NotNone))
    /\ \A c, d \in probe.log :
           SelectSeq(c.parts, NotNone) # SelectSeq(d.parts, NotNone) => c.out # d.out

\* C13: a get_json of a key that an endpoint stored with a positive ttl returns
\* the stored value while fewer than ttl seconds have passed since the store and
\* misses once ttl seconds have passed; the request that misses recomputes, and
\* every store of such an endpoint leaves the entry readable with its full ttl.
TtlExpiry ==
    [][\A w \in Workers :
          /\ (/\ req[w].pc = "get" /\ req'[w].pc # "get"
              /\ req[w].k \in DOMAIN stored
              /\ Truthy(stored[req[w].k].ttl))
                => IF Now - stored[req[w].k].at < stored[req[w].k].ttl.i
                   THEN /\ req'[w].pc = "ttl"
                        /\ req'[w].cached = stored[req[w].k].v
                   ELSE req'[w].pc = "query"
          /\ (/\ req[w].pc = "set" /\ req'[w].wrote
              /\ Truthy(StoreTtl(req[w].p.ep)))
                => /\ RedisTtl(redis', req[w].k) = StoreTtl(req[w].p.ep).i
                   /\ get_json(redis', req[w].k).ret = req[w].result]_vars

\* C13 witness: a request found its key expired, recomputed and stored it afresh
ExpiredThenRestored ==
    \E w \in Workers :
        /\ Ok200(w) /\ req[w].sawGone /\ req[w].computed /\ req[w].wrote
        /\ stored[req[w].k].at >= REPORT_TTL
        /\ RedisTtl(redis, req[w].k) = REPORT_TTL

\* the keys of a namespace: prefix, ':', the namespace, ':'
InNamespace(k, ns) == StartsWith(k, CACHE_PREFIX \o Colon \o ns \o Colon)

\* C14: in every cache state each entry under the report, active_shoppers and
\* popular namespaces has a TTL of at most 60 seconds, and each entry under the
\* customer namespace has no TTL.
TtlPolicy ==
    \A k \in DOMAIN redis :
        /\ (\E ns \in {S_report, S_active_shoppers, S_popular} : InNamespace(k, ns))
              => redis[k].ttl \in 1..60
        /\ InNamespace(k, S_customer) => redis[k].ttl = NoExpiry

\* C14 witness: the four namespaces hold entries, some of them part-way to expiry
PolicyAtWork ==
    /\ \E k \in DOMAIN redis : InNamespace(k, S_customer)
    /\ \E k \in DOMAIN redis :
          /\ \E ns \in {S_report, S_active_shoppers, S_popular} : InNamespace(k, ns)
          /\ redis[k].ttl < 60

\* set_json(k, v, ttl=None) was the last store of k and k is still in the cache
PersistentEntry(k) ==
    k \in DOMAIN redis /\ k \in DOMAIN stored /\ IsNone(stored[k].ttl)

\* C15: an entry stored with ttl = None stays in the cache, readable as the
\* stored value, through every step except a delete_prefix whose prefix matches
\* its key and a set_json of the same key.
NoTtlPersists ==
    [][\A k \in DOMAIN redis :
          PersistentEntry(k) =>
              \/ /\ k \in DOMAIN redis'
                 /\ redis'[k] = redis[k]
                 /\ get_json(redis', k).ret = stored[k].v
              \/ /\ adm.pc = "exec" /\ adm'.pc # "exec"
                 /\ k \in adm.queued
                 /\ StartsWith(k, AdmPrefix)
              \/ \E w \in Workers :
                    /\ req[w].pc = "set" /\ req'[w].wrote
                    /\ req[w].k = k]_vars

\* C15 witness: an entry stored without TTL is read long after a TTL would have
\* run out
OutlivesTtl ==
    \E w \in Workers :
        /\ Ok200(w) /\ req[w].resp.path = "hit"
        /\ PersistentEntry(req[w].k)
        /\ Now - stored[req[w].k].at >= 60
        /\ Field(w, S_ttl_seconds) = PyInt(NoExpiry)

MetaFields == {S_elapsed_ms, S_cached, S_ttl_seconds}

NotMeta(item) == item[1] \notin MetaFields

\* a response body without elapsed_ms, cached and ttl_seconds
WithoutMeta(body) == PyDict(SelectSeq(body.kv, NotMeta))

HitChangesNothing ==
    [][\A w \in Workers :
          /\ (req[w].pc = "get" /\ req'[w].pc = "ttl") =>
                /\ redis' = redis /\ db' = db
                /\ req[w].k \in DOMAIN redis
                /\ Loads(redis[req[w].k].data) = [ok |-> TRUE, v |-> req'[w].cached]
          /\ (req[w].pc = "ttl" /\ req'[w].pc = "done") =>
                /\ redis' = redis /\ db' = db
                /\ req'[w].resp.status = 200
                /\ DictGet(req'[w].resp.body, S_cached) = PyBool(TRUE)
                /\ WithoutMeta(req'[w].resp.body) = Payload(req[w].p.ep, req[w].cached)
                /\ ~req'[w].computed /\ ~req'[w].wrote]_vars

\* C17 witness: a hit was served from an entry part-way to its expiry
HitServed ==
    \E w \in Workers :
        /\ Ok200(w) /\ req[w].resp.path = "hit"
        /\ Field(w, S_cached) = PyBool(TRUE)
        /\ Field(w, S_ttl_seconds) = PyInt(TickSeconds)
        /\ req[w].k \in DOMAIN redis

ReportNamespaces == {S_report, S_active_shoppers, S_popular, S_customer}

LoadSucceeded == adm.pc = "done" /\ adm.op = "load" /\ adm.resp.status = 200

\* the requests whose keys the cached endpoints can write
WritableKeys ==
    {KeyOf(p) : p \in {x \in KeyRequests \cup SiteRequests :
                          x.ep = "customer" => IsUuid(x.user_id)}}

\* C18: load_sample_data deletes a prefix only once the load is committed, and
\* when it returns success it has completed a delete_prefix for each of the four
\* report namespaces; every key a cached endpoint can write or has written lies
\* under one of the prefixes it deleted.
ReloadInvalidatesAll ==
    /\ (adm.op = "load" /\ adm.cleared # {}) =>
          /\ adm.loaded
          /\ db = [customers |-> CsvCustomers, gen |-> used.loads]
    /\ LoadSucceeded =>
          /\ adm.loaded
          /\ \A ns \in ReportNamespaces :
                CACHE_PREFIX \o Colon \o ns \o Colon \in adm.cleared
          /\ \A k \in WritableKeys \cup DOMAIN stored :
                \E pre \in adm.cleared : StartsWith(k, pre)

\* C18 witness: a reload has returned success while requests were being served
ReloadDone ==
    /\ LoadSucceeded
    /\ Cardinality(adm.cleared) = 4
    /\ db.gen = 2
    /\ \E w \in Workers : Ok200(w) /\ req[w].wrote

\* an entry whose payload was computed from the rows of an earlier load
Stale(k) ==
    /\ k \in DOMAIN redis /\ k \in DOMAIN stored
    /\ stored[k].gen >= 1 /\ stored[k].gen < db.gen

\* C19: once a reload has returned and no request is in flight (so that nothing
\* but the passing of time will touch the cache), every entry computed from the
\* replaced data carries a TTL, so that it expires without another
\* invalidation.
StaleEntriesExpire ==
    (LoadSucceeded /\ \A w \in Workers : ~InFlight(w))
        => \A k \in DOMAIN redis : Stale(k) => redis[k].ttl # NoExpiry

\* C20: the step in which a delete_prefix of load_sample_data fails, after
\* load_from_csv has returned, ends the request with an error and changes
\* neither the database, which holds the newly loaded customers and
\* transactions, nor the cache, where the namespaces already deleted are still
\* empty.
ReloadKeptOnInvalidationFailure ==
    [][(/\ adm.op = "load" /\ adm.pc \in {"scan", "exec"}
        /\ adm'.pc = "done" /\ adm'.resp.status # 200)
          => /\ adm.loaded
             /\ db' = db
             /\ db = [customers |-> CsvCustomers, gen |-> used.loads]
             /\ redis' = redis
             /\ \A pre \in adm.cleared : ScanMatch(redis', pre) = {}]_vars

\* C20 witness: a reload failed at a later delete_prefix, after deleting some
\* namespaces, and the new load is in the database
LoadFailedAfterSomeDeletes ==
    /\ adm.pc = "done" /\ adm.op = "load" /\ adm.resp.err = "redis"
    /\ adm.loaded
    /\ adm.cleared # {}
    /\ db = [customers |-> CsvCustomers, gen |-> 2]
    /\ \A pre \in adm.cleared : ScanMatch(redis, pre) = {}
    /\ \E k \in DOMAIN stored : k \in DOMAIN redis
    /\ \E k \in DOMAIN stored : k \notin DOMAIN redis

InvalidId(p) == p.ep = "customer" /\ ~IsUuid(p.user_id)

\* C21: the step that takes in a customer_detail request whose user_id is not
\* a valid UUID ends it with the 400 error and leaves the cache and the database
\* as they were; such a request never reaches the cache read, the TTL read, the
\* queries or the cache write, and it is answered 400 also while Redis or the
\* database is down.
InvalidRejectedFirst ==
    [][\A w \in Workers :
          InvalidId(req'[w].p) =>
              /\ req'[w].pc = "done"
              /\ req'[w].resp.status = 400
              /\ req'[w].k = <<>>
              /\ ~req'[w].computed /\ ~req'[w].wrote /\ ~req'[w].cacheFailed
              /\ (req'[w] # req[w]) => (redis' = redis /\ db' = db)]_vars

\* C21 witness: an invalid user_id was answered 400 while Redis was down
RejectedDuringOutage ==
    \E w \in Workers :
        /\ Done(w) /\ InvalidId(req[w].p)
        /\ req[w].resp.status = 400
        /\ ~redisUp

ClearSucceeded == adm.pc = "done" /\ adm.op = "clear" /\ adm.resp.status = 200

\* C22: when clear_data has completed, with no request in between, the
\* customers and transactions tables are empty and no key starting with
\* CACHE_PREFIX + ":" is in Redis, whichever writer stored it (the report
\* endpoints, the chat module, the standalone loader).
ClearWipesAll ==
    ClearSucceeded =>
        /\ db = [customers |-> {}, gen |-> 0]
        /\ \A k \in DOMAIN redis : ~StartsWith(k, CACHE_PREFIX \o <<":">>)

\* C22 witness: clear_data has completed over a cache that held entries of the
\* four report namespaces, of chat and of the loader
ClearedFullCache ==
    /\ ClearSucceeded
    /\ adm.deleted = Cardinality(Requests) + Cardinality(DOMAIN OutsideEntries)
    /\ Cardinality(DOMAIN stored) = Cardinality(Requests)
    /\ redis = EmptyStore

\* C23: the step that completes a delete_prefix(r, prefix), with no writer
\* between its scan and its execute, removes exactly the keys that start with
\* prefix and leaves every other key with its value and TTL; a reload's
\* deletions therefore leave the chat keys and the loader's customer set as
\* they were.
DeletePrefixFrame ==
    [][(adm.pc = "exec" /\ redisUp /\ adm' # adm) =>
          /\ DOMAIN redis' = {k \in DOMAIN redis : ~StartsWith(k, AdmPrefix)}
          /\ \A k \in DOMAIN redis' : redis'[k] = redis[k]
          /\ adm.op = "load" =>
                \A k \in DOMAIN OutsideEntries \cap DOMAIN redis :
                    k \in DOMAIN redis' /\ redis'[k] = OutsideEntries[k]]_vars

\* C23 witness: a reload has deleted every report entry and the entries of chat
\* and of the loader are all still there
ReloadSparedOthers ==
    /\ LoadSucceeded
    /\ Cardinality(DOMAIN stored) = Cardinality(Requests)
    /\ redis = OutsideEntries

\* the key that encodes the since_days and the limit a statement was executed
\* with; for customer_detail 'all' stands for a statement run without a window
KeyOfRan(p, ran) ==
    CASE p.ep = "retail" ->
           key(<<PyStr(S_report),
                 PyStr(<<"r", "e", "t", "a", "i", "l", ":">> \o IntStr(ran.since) \o <<":">>
                       \o IntStr(ran.limit.i))>>)
      [] p.ep = "active" ->
           key(<<PyStr(S_active_shoppers),
                 PyStr(IntStr(ran.since) \o <<":">>
                       \o (IF IsNone(ran.limit) THEN <<"a", "l", "l">>
                           ELSE IntStr(ran.limit.i)))>>)
      [] p.ep = "popular" ->
           key(<<PyStr(S_popular),
                 PyStr(IntStr(ran.since) \o <<":">> \o IntStr(ran.limit.i))>>)
      [] p.ep = "customer" ->
           key(<<PyStr(S_customer),
                 PyStr(p.user_id \o <<":">>
                       \o (IF IsNone(p.since_days) /\ ran.since <= 0 THEN <<"a", "l", "l">>
                           ELSE IntStr(ran.since)))>>)

\* C24: whenever an endpoint holds a computed result to store, or has stored
\* it, the key of the request encodes the since_days and the limit its source
\* statement was executed with; for active_shoppers_cached a non-positive limit
\* gives the key part 'all' and a statement without LIMIT, and a positive limit
\* gives min(limit, 1200) in the key and in the statement.
ClampAgreement ==
    \A w \in Workers :
        (req[w].pc = "set" \/ req[w].wrote) =>
            /\ req[w].k = KeyOfRan(req[w].p, req[w].ran)
            /\ req[w].p.ep = "active" =>
                  req[w].ran.limit =
                      IF req[w].p.limit.i <= 0 THEN PyNone
                      ELSE IF req[w].p.limit.i < 1200 THEN req[w].p.limit
                      ELSE PyInt(1200)

\* C24 witness: a limit above the cap and a non-positive limit have both been
\* computed and stored
ClampedBothWays ==
    \E v, w \in Workers :
        /\ req[v].wrote /\ req[v].p.ep = "active" /\ req[v].p.limit.i > 1200
        /\ req[v].ran.limit = PyInt(1200)
        /\ req[w].wrote /\ req[w].p.ep = "active" /\ req[w].p.limit.i <= 0
        /\ IsNone(req[w].ran.limit)

\* C25: every successful response of a report endpoint, hit or miss, is a
\* dict with elapsed_ms, cached and ttl_seconds; elapsed_ms is the reading
\* taken in that request, cached is the boolean of the path taken, and the
\* cached value a hit wraps holds no elapsed_ms that could stand in for the
\* reading.
EnvelopeOnEveryResponse ==
    \A w \in Workers :
        Ok200(w) =>
            LET body == req[w].resp.body
                path == req[w].resp.path
            IN  /\ body.t = "dict"
                /\ DictHas(body, S_elapsed_ms)
                /\ DictGet(body, S_elapsed_ms) = ElapsedReading(path)
                /\ DictHas(body, S_cached)
                /\ DictGet(body, S_cached) = PyBool(path = "hit")
                /\ DictHas(body, S_ttl_seconds)
                /\ (path = "hit" /\ req[w].cached.t = "dict")
                      => ~DictHas(req[w].cached, S_elapsed_ms)

\* C25 witness: customer_detail, which wraps the cached dict itself, has
\* answered a miss and then a hit, each with its own reading
BothPathsMeasured ==
    \E v, w \in Workers :
        /\ Ok200(v) /\ Ok200(w)
        /\ req[v].p.ep = "customer" /\ req[w].p.ep = "customer"
        /\ req[v].resp.path = "miss" /\ Field(v, S_elapsed_ms) = PyInt(3)
        /\ req[w].resp.path = "hit" /\ Field(w, S_elapsed_ms) = PyInt(2)

\* x is not a dict holding elapsed_ms, cached or ttl_seconds
NoEnvelope(x) == x.t = "dict" => \A f \in MetaFields : ~DictHas(x, f)

\* C30: every text a step of a report endpoint puts into the cache, starting
\* from the empty cache, is JSON without the fields elapsed_ms, cached and
\* ttl_seconds, although the response of the miss that stored it carries them:
\* the store writes the result as it was before _wrap, and the steps of a hit
\* write nothing.
StoredWithoutEnvelope ==
    [][/\ \A k \in DOMAIN redis' :
              (k \notin DOMAIN redis \/ redis'[k].data # redis[k].data) =>
                  /\ Loads(redis'[k].data).ok
                  /\ NoEnvelope(Loads(redis'[k].data).v)
       /\ \A w \in Workers :
              /\ (req[w].pc = "set" /\ req'[w].wrote) =>
                    /\ Loads(redis'[req[w].k].data).v = req[w].result
                    /\ ~NoEnvelope(req'[w].resp.body)
              /\ (req'[w] # req[w] /\ (req[w].pc = "ttl" \/ req'[w].pc = "ttl"))
                    => redis' = redis]_vars

\* C30 witness: customer_detail, which passes one dict to set_json and to _wrap,
\* has answered a miss and its entry is read back without the envelope
CustomerStoredBare ==
    \E w \in Workers :
        /\ Ok200(w) /\ req[w].wrote /\ req[w].p.ep = "customer"
        /\ req[w].k \in DOMAIN redis
        /\ get_json(redis, req[w].k).ret = WithoutMeta(req[w].resp.body)
        /\ req[w].resp.body # WithoutMeta(req[w].resp.body)

\* C28: the step in which load_sample_data finds a CSV file missing ends the
\* request with an error and changes neither the database nor the cache: no
\* table is truncated, nothing is loaded and no prefix is deleted.
MissingFileNoEffect ==
    [][(adm' # adm /\ adm'.op = "load" /\ adm'.resp.err = "nofile") =>
          /\ adm'.pc = "done" /\ adm'.resp.status # 200
          /\ db' = db
          /\ redis' = redis
          /\ ~adm'.loaded /\ adm'.cleared = {} /\ adm'.queued = {}]_vars

\* C28 witness: a reload has failed on a missing file over a loaded database and
\* a filled cache, both still as they were
FailedOnMissingFile ==
    /\ adm.pc = "done" /\ adm.op = "load" /\ adm.resp.err = "nofile"
    /\ db = [customers |-> CsvCustomers, gen |-> 1]
    /\ Cardinality(DOMAIN stored) = Cardinality(Requests)
    /\ DOMAIN redis = DOMAIN stored \cup DOMAIN OutsideEntries

\* the id texts a load can hold, each with whether UUID() accepts it and the
\* id it denotes
IdForms ==
    [x \in RawIds \cup { ParsedIds[r].s : r \in RawIds }
              \cup { _uuid_or_new(<<"x">>, n).id : n \in 0..(2 * MaxRows) } |->
        [ok |-> IsUuid(x), id |-> IF IsUuid(x) THEN UuidStr(x) ELSE <<>>]]

\* the lines of a file whose id text, stripped, UUID() accepts as the id u
LinesOf(file, u) ==
    { i \in 1..Len(file) : ParsedIds[file[i]].ok /\ ParsedIds[file[i]].id = u }

\* C27: after load_from_csv with reset=True the customers of the database are
\* those of cust_rows, whose ids are valid UUIDs and pairwise different as
\* UUIDs; of the rows of the file with one id the first is the one kept; every
\* row of tx_rows has the id of a customer of this load, and the rows of
\* tx_rows are exactly the lines of the transactions file whose user_id is a
\* valid UUID of such a customer (blank, invalid and unknown ones are skipped).
CsvSanitised ==
    probe.pc = "loaded" =>
        LET cs == probe.cust_rows
            ts == probe.tx_rows
            cf == probe.customers_csv
            tf == probe.transactions_csv
        IN  /\ db.customers = { cs[i].id : i \in 1..Len(cs) }
            /\ \A i \in 1..Len(cs) : IdForms[cs[i].id].ok
            /\ \A i, j \in 1..Len(cs) :
                   i # j => IdForms[cs[i].id].id # IdForms[cs[j].id].id
            /\ \A i \in 1..Len(cs) :
                   \A l \in LinesOf(cf, IdForms[cs[i].id].id) : cs[i].line <= l
            /\ \A l \in 1..Len(cf) :
                   ParsedIds[cf[l]].ok => ParsedIds[cf[l]].id \in db.customers
            /\ \A i \in 1..Len(ts) : ts[i].user_id \in db.customers
            /\ { ts[i].line : i \in 1..Len(ts) }
                   = { l \in 1..Len(tf) : \E u \in db.customers : l \in LinesOf(tf, u) }
            /\ \A i, j \in 1..Len(ts) : i < j => ts[i].line < ts[j].line

\* a load that dropped a repeated customer id given in another form, kept the
\* first, and skipped a blank and an unknown transaction
DroppedDuplicateAndSkipped ==
    /\ probe.pc = "loaded"
    /\ probe.customers_csv = <<U1, <<" ", "{">> \o U1 \o <<"}">> >>
    /\ probe.cust_rows = <<[id |-> U1, line |-> 1]>>
    /\ probe.transactions_csv = << <<>>, <<" ", "{">> \o U1 \o <<"}">> >>
    /\ probe.tx_rows = <<[user_id |-> U1, line |-> 2]>>
    /\ db.customers = {U1}

\* C29: two calls of _cache_key whose (session_id, hashed user_msg) pairs
\* differ never yield the same key of the quick-response cache.
ChatCacheKeysDistinct ==
    \A c, d \in probe.log :
        (c.site = "cache" /\ d.site = "cache" /\ c.parts # d.parts) => c.out # d.out

\* C26: when the standalone loader has run its clearing step, with
\* deleted_count the keys it deleted, no key under its customer namespace
\* (key("customer", "")) is left in Redis.
CsvStartsClean ==
    probe.pc = "cleared" =>
        \A k \in DOMAIN redis : ~StartsWith(k, csv_key(S_customer, <<>>))

====
